---- MODULE Spec2Model ----
(***************************************************************************)
(* The Snowflake exporter of src/main.py: startup validation of the        *)
(* environment, the serve() loop, one collect_metrics() cycle with its     *)
(* connection, cursor, nine gauges and nine catalog queries, and the       *)
(* scrape reader of the gauges.                                            *)
(*                                                                         *)
(* A nullable SQL or environment value is an option: Null is <<>> and      *)
(* Some(x) is <<x>>.                                                       *)
(***************************************************************************)
EXTENDS Integers, Sequences, FiniteSets, TLC

VARIABLES
    env,        \* os.getenv of the six required variables
    pc,         \* position of the main thread
    serverUp,   \* start_http_server has been called
    conn,       \* the cycle's connection: "none", "open", "closed"
    cs,         \* the cycle's cursor: "none", "open", "closed"
    registry,   \* gauge name -> (label tuple -> value)
    entry,      \* index of the catalog entry being executed
    rows,       \* rows of cs.fetchall() not yet written
    usage,      \* the account-usage data the queries read
    outcome,    \* how the current or last cycle ended
    err,        \* the call whose exception this cycle caught, "" if none
    attempts,   \* snowflake.connector.connect calls of this cycle
    closes,     \* conn.close() calls of this cycle that returned
    pre,        \* history: registry when this cycle started
    prevOutcome,\* history: outcome of the preceding cycle
    sameData,   \* history: usage is what it was in the preceding cycle
    scraped,    \* what a scrape read during this cycle: <<>> or <<gauge, samples>>
    crash,      \* the call whose exception left serve(), "" if none
    sessions,   \* history: connections opened and not closed, over all cycles
    context,    \* history: the USE statements that returned in this cycle
    executed,   \* history: catalog queries this cycle has sent to cs.execute
    written,    \* history: gauge name -> label tuples labels() was given in this cycle
    running,    \* history: collect_metrics() calls that have not returned
    unslept     \* history: collect_metrics() returns not yet followed by a sleep

vars == <<env, pc, serverUp, conn, cs, registry, entry, rows, usage, outcome,
          err, attempts, closes, pre, prevOutcome, sameData, scraped, crash,
          sessions, context, executed, written, running, unslept>>

----------------------------------------------------------------------------
(* Bounds of the model and its input domains *)

\* longest account-usage history the model considers
MaxRows == 2

Null == <<>>
Some(x) == <<x>>

\* names found in the grouping columns, and amounts in the measured columns
Names == {"WH_A"}
Amounts == {1000}

\* one raw usage row: a grouping name and a measured amount, either nullable
RawRows == [name : {Null} \cup {Some(n) : n \in Names},
            amount : {Null} \cup {Some(a) : a \in Amounts}]

SeqsUpTo(S, n) == UNION {[1..k -> S] : k \in 0..n}

\* the states of the account-usage data
Usages == SeqsUpTo(RawRows, MaxRows)

\* values os.getenv can give: unset (None), set to "", set to a value
EnvValues == {Null, Some(""), Some("x")}

----------------------------------------------------------------------------
(* The gauges and the configuration *)

Catalog == <<"warehouse_credits", "warehouse_load", "query_duration",
             "table_storage", "login_success", "login_failure",
             "access_events", "session_count", "failed_queries">>

Metrics == {Catalog[i] : i \in 1..Len(Catalog)}

required_env == {"SNOWFLAKE_USERNAME", "SNOWFLAKE_PASSWORD", "SNOWFLAKE_ACCOUNT",
                 "SNOWFLAKE_WAREHOUSE", "SNOWFLAKE_DATABASE", "SNOWFLAKE_SCHEMA"}

\* `not v`: None and the empty string are falsy
Falsy(v) == v = Null \/ v = Some("")

\* a validation that tests `v is None` in place of `not v`
missingNoneOnly(e) == {k \in required_env : e[k] = Null}

missing(e) == {k \in required_env : Falsy(e[k])}

EmptyRegistry == [m \in Metrics |-> <<>>]

NothingWritten == [m \in Metrics |-> {}]

----------------------------------------------------------------------------
(* The nine queries, as functions of the account-usage data *)

\* WHERE warehouse_name IS NOT NULL
NotNullName(data) == SelectSeq(data, LAMBDA r : r.name # Null)

RECURSIVE GroupNames(_)
\* GROUP BY: the distinct grouping values, NULL being one group
GroupNames(data) ==
    IF data = <<>> THEN <<>>
    ELSE LET front == GroupNames(SubSeq(data, 1, Len(data) - 1))
             last == data[Len(data)].name
         IN IF \E i \in 1..Len(front) : front[i] = last
            THEN front ELSE Append(front, last)

Group(data, n) == SelectSeq(data, LAMBDA r : r.name = n)

RECURSIVE Total(_)
\* sum of the non-null amounts
Total(data) ==
    IF data = <<>> THEN 0
    ELSE (IF data[1].amount = Null THEN 0 ELSE data[1].amount[1]) + Total(Tail(data))

NonNullAmounts(data) == SelectSeq(data, LAMBDA r : r.amount # Null)

\* SUM(x): NULL when the group has no non-null x
SqlSum(data) == IF NonNullAmounts(data) = <<>> THEN Null ELSE Some(Total(data))

\* AVG(x): NULL when the group has no non-null x
SqlAvg(data) ==
    IF NonNullAmounts(data) = <<>> THEN Null
    ELSE Some(Total(data) \div Len(NonNullAmounts(data)))

\* COUNT(*)
SqlCount(data) == Some(Len(data))

Row(labels, value) == [labels |-> labels, value |-> value]

\* AVG(total_elapsed_time)/1000
AvgSeconds(data) ==
    IF SqlAvg(data) = Null THEN Null ELSE Some(SqlAvg(data)[1] \div 1000)

\* the aggregate of a query's SELECT list over one group
Aggregate(agg, data) ==
    CASE agg = "SUM"      -> SqlSum(data)
      [] agg = "AVG"      -> SqlAvg(data)
      [] agg = "AVG/1000" -> AvgSeconds(data)
      [] agg = "COUNT"    -> SqlCount(data)

\* SELECT name, agg(...) ... GROUP BY name: one row per group
Grouped(data, agg) ==
    LET names == GroupNames(data)
    IN [i \in 1..Len(names) |-> Row(<<names[i]>>, Aggregate(agg, Group(data, names[i])))]

\* SELECT user_name, object_name, COUNT(*) ... GROUP BY user_name, object_name
GroupedByUserAndObject(data) ==
    LET byUser == Grouped(data, "COUNT")
    IN [i \in 1..Len(byUser) |->
           Row(<<byUser[i].labels[1], Some("T1")>>, byUser[i].value)]

\* SELECT table_catalog, table_schema, table_name, bytes: no grouping
StorageRows(data) ==
    [i \in 1..Len(data) |->
        Row(<<Some("DB1"), Some("PUBLIC"), data[i].name>>, data[i].amount)]

\* the rows cs.fetchall() returns for catalog entry m over the data
Results(m, data) ==
    CASE m = "warehouse_credits" -> Grouped(data, "SUM")
      [] m = "warehouse_load"    -> Grouped(data, "AVG")
      [] m = "query_duration"    -> Grouped(NotNullName(data), "AVG/1000")
      [] m = "table_storage"     -> StorageRows(data)
      [] m = "login_success"     -> Grouped(data, "COUNT")
      [] m = "login_failure"     -> Grouped(data, "COUNT")
      [] m = "access_events"     -> GroupedByUserAndObject(data)
      [] m = "session_count"     -> Grouped(data, "COUNT")
      [] m = "failed_queries"    -> Grouped(NotNullName(data), "COUNT")

----------------------------------------------------------------------------
(* prometheus_client's Gauge, as main.py uses it *)

\* labels(...) keys the child by str() of each label value: str(None) is "None"
Str(v) == IF v = Null THEN "None" ELSE v[1]

LabelKey(labels) == [i \in 1..Len(labels) |-> Str(labels[i])]

\* labels(...): the child of the key, created with value 0 when there is none
WithChild(samples, key) ==
    IF key \in DOMAIN samples THEN samples
    ELSE [k \in DOMAIN samples \cup {key} |-> IF k = key THEN 0 ELSE samples[k]]

\* labels(...).inc(v) in place of set(v)
IncSample(samples, key, v) ==
    [k \in DOMAIN samples \cup {key} |->
        IF k = key THEN (IF key \in DOMAIN samples THEN samples[key] ELSE 0) + v
        ELSE samples[k]]

\* labels(...).set(v) for a number v
SetSample(samples, key, v) ==
    [k \in DOMAIN samples \cup {key} |-> IF k = key THEN v ELSE samples[k]]

----------------------------------------------------------------------------
(* Startup: module level of main.py, then serve() *)

Init ==
    /\ env \in [required_env -> EnvValues]
    /\ pc = "validate"
    /\ serverUp = FALSE
    /\ conn = "none"
    /\ cs = "none"
    /\ registry = EmptyRegistry
    /\ entry = 1
    /\ rows = <<>>
    /\ usage \in Usages
    /\ outcome = "None"
    /\ err = ""
    /\ attempts = 0
    /\ closes = 0
    /\ pre = EmptyRegistry
    /\ prevOutcome = "None"
    /\ sameData = FALSE
    /\ scraped = <<>>
    /\ crash = ""
    /\ sessions = 0
    /\ context = <<>>
    /\ executed = 0
    /\ written = NothingWritten
    /\ running = 0
    /\ unslept = 0

\* if missing: sys.exit(1)
Validate ==
    /\ pc = "validate"
    /\ pc' = IF missing(env) # {} THEN "exited" ELSE "serve"
    /\ UNCHANGED <<env, serverUp, conn, cs, registry, entry, rows, usage, outcome,
                   err, attempts, closes, pre, prevOutcome, sameData, scraped, crash,
                   sessions, context, executed, written, running, unslept>>

\* start_http_server(EXPORTER_PORT), then the first iteration of while True
StartServer ==
    /\ pc = "serve"
    /\ serverUp' = TRUE
    /\ pc' = "loop"
    /\ outcome' = "Running"
    /\ UNCHANGED <<env, conn, cs, registry, entry, rows, usage, err, attempts,
                   closes, pre, prevOutcome, sameData, scraped, crash,
                   sessions, context, executed, written, running, unslept>>

----------------------------------------------------------------------------
(* collect_metrics() *)

\* connect_to_snowflake() returns a connection
ConnectOk ==
    /\ pc = "loop"
    /\ attempts' = attempts + 1
    /\ conn' = "open"
    /\ sessions' = sessions + 1
    /\ running' = running + 1
    /\ pc' = "cursor"
    /\ UNCHANGED <<env, serverUp, cs, registry, entry, rows, usage, outcome, err,
                   closes, pre, prevOutcome, sameData, scraped, crash,
                   context, executed, written, unslept>>

\* a cycle that clears the gauges before it knows it has a connection
ConnectFailCleared ==
    /\ pc = "loop"
    /\ attempts' = attempts + 1
    /\ err' = "connect"
    /\ outcome' = "Skipped"
    /\ unslept' = unslept + 1
    /\ registry' = EmptyRegistry
    /\ pc' = "sleep"
    /\ UNCHANGED <<env, serverUp, conn, cs, entry, rows, usage, closes,
                   pre, prevOutcome, sameData, scraped, crash,
                   sessions, context, executed, written, running>>

\* a connection that is tried again at once when it fails
ConnectFailRetry ==
    /\ pc = "loop"
    /\ attempts' = attempts + 1
    /\ err' = "connect"
    /\ UNCHANGED <<env, pc, serverUp, conn, cs, registry, entry, rows, usage, outcome,
                   closes, pre, prevOutcome, sameData, scraped, crash,
                   sessions, context, executed, written, running, unslept>>

\* a loop that goes to its next iteration without sleeping after a skipped cycle
ConnectFailNoSleep ==
    /\ pc = "loop"
    /\ attempts' = attempts + 1
    /\ err' = "connect"
    /\ outcome' = "Skipped"
    /\ unslept' = unslept + 1
    /\ UNCHANGED <<env, pc, serverUp, conn, cs, registry, entry, rows, usage, closes,
                   pre, prevOutcome, sameData, scraped, crash,
                   sessions, context, executed, written, running>>

\* connect raises: connect_to_snowflake() logs and returns None, and
\* collect_metrics() returns
ConnectFail ==
    /\ pc = "loop"
    /\ attempts' = attempts + 1
    /\ err' = "connect"
    /\ outcome' = "Skipped"
    /\ unslept' = unslept + 1
    /\ pc' = "sleep"
    /\ UNCHANGED <<env, serverUp, conn, cs, registry, entry, rows, usage, closes,
                   pre, prevOutcome, sameData, scraped, crash,
                   sessions, context, executed, written, running>>

\* cs = conn.cursor()
CursorOk ==
    /\ pc = "cursor"
    /\ cs' = "open"
    /\ pc' = "clear"
    /\ UNCHANGED <<env, serverUp, conn, registry, entry, rows, usage, outcome, err,
                   attempts, closes, pre, prevOutcome, sameData, scraped, crash,
                   sessions, context, executed, written, running, unslept>>

\* conn.cursor() raises outside the try: nothing catches it, up through serve()
CursorRaise ==
    /\ pc = "cursor"
    /\ crash' = "cursor"
    /\ pc' = "crashed"
    /\ UNCHANGED <<env, serverUp, conn, cs, registry, entry, rows, usage, outcome, err,
                   attempts, closes, pre, prevOutcome, sameData, scraped,
                   sessions, context, executed, written, running, unslept>>

\* a cycle without the clear() calls
ClearNone ==
    /\ pc = "clear"
    /\ pc' = "use_database"
    /\ UNCHANGED <<env, serverUp, conn, cs, registry, entry, rows, usage, outcome,
                   err, attempts, closes, pre, prevOutcome, sameData, scraped, crash,
                   sessions, context, executed, written, running, unslept>>

\* a cycle without failed_queries.clear()
ClearAllButLast ==
    /\ pc = "clear"
    /\ registry' = [m \in Metrics |->
                       IF m = Catalog[Len(Catalog)] THEN registry[m] ELSE <<>>]
    /\ pc' = "use_database"
    /\ UNCHANGED <<env, serverUp, conn, cs, entry, rows, usage, outcome, err,
                   attempts, closes, pre, prevOutcome, sameData, scraped, crash,
                   sessions, context, executed, written, running, unslept>>

\* the nine clear() calls
ClearAll ==
    /\ pc = "clear"
    /\ registry' = EmptyRegistry
    /\ pc' = "use_database"
    /\ UNCHANGED <<env, serverUp, conn, cs, entry, rows, usage, outcome, err,
                   attempts, closes, pre, prevOutcome, sameData, scraped, crash,
                   sessions, context, executed, written, running, unslept>>

\* except Exception: log; then the finally block
Except(call) ==
    /\ err' = call
    /\ outcome' = "Failed"
    /\ pc' = "close_cursor"

UseDatabaseOk ==
    /\ pc = "use_database"
    /\ pc' = "use_schema"
    /\ context' = Append(context, "database")
    /\ UNCHANGED <<env, serverUp, conn, cs, registry, entry, rows, usage, outcome,
                   err, attempts, closes, pre, prevOutcome, sameData, scraped, crash,
                   sessions, executed, written, running, unslept>>

UseDatabaseRaise ==
    /\ pc = "use_database"
    /\ Except("use_database")
    /\ UNCHANGED <<env, serverUp, conn, cs, registry, entry, rows, usage, attempts,
                   closes, pre, prevOutcome, sameData, scraped, crash,
                   sessions, context, executed, written, running, unslept>>

UseSchemaOk ==
    /\ pc = "use_schema"
    /\ pc' = "query"
    /\ context' = Append(context, "schema")
    /\ UNCHANGED <<env, serverUp, conn, cs, registry, entry, rows, usage, outcome,
                   err, attempts, closes, pre, prevOutcome, sameData, scraped, crash,
                   sessions, executed, written, running, unslept>>

\* a USE SCHEMA whose exception is ignored, the queries going ahead
UseSchemaRaiseIgnored ==
    /\ pc = "use_schema"
    /\ pc' = "query"
    /\ UNCHANGED <<env, serverUp, conn, cs, registry, entry, rows, usage, outcome,
                   err, attempts, closes, pre, prevOutcome, sameData, scraped, crash,
                   sessions, context, executed, written, running, unslept>>

UseSchemaRaise ==
    /\ pc = "use_schema"
    /\ Except("use_schema")
    /\ UNCHANGED <<env, serverUp, conn, cs, registry, entry, rows, usage, attempts,
                   closes, pre, prevOutcome, sameData, scraped, crash,
                   sessions, context, executed, written, running, unslept>>

\* after the last row of an entry: the next entry's execute, or, after the
\* ninth, logger.info and the finally block
Advance ==
    IF entry < Len(Catalog)
    THEN /\ entry' = entry + 1
         /\ pc' = "query"
         /\ outcome' = outcome
    ELSE /\ entry' = entry
         /\ pc' = "close_cursor"
         /\ outcome' = "Committed"

\* cs.execute(...) and cs.fetchall() of the current entry return
QueryOk ==
    /\ pc = "query"
    /\ executed' = executed + 1
    /\ LET fetched == Results(Catalog[entry], usage)
       IN IF fetched = <<>>
          THEN rows' = <<>> /\ Advance
          ELSE rows' = fetched /\ pc' = "write" /\ UNCHANGED <<entry, outcome>>
    /\ UNCHANGED <<env, serverUp, conn, cs, registry, usage, err, attempts, closes,
                   pre, prevOutcome, sameData, scraped, crash,
                   sessions, context, written, running, unslept>>

\* a cycle that swallows the exception of one entry and goes on to the next
QueryRaiseSwallowed ==
    /\ pc = "query"
    /\ executed' = executed + 1
    /\ Advance
    /\ UNCHANGED <<env, serverUp, conn, cs, registry, rows, usage, err, attempts,
                   closes, pre, prevOutcome, sameData, scraped, crash,
                   sessions, context, written, running, unslept>>

\* a cycle that logs the exception of one entry and goes on to the next
QueryRaiseContinues ==
    /\ pc = "query"
    /\ executed' = executed + 1
    /\ err' = "query"
    /\ outcome' = "Failed"
    /\ IF entry < Len(Catalog)
       THEN entry' = entry + 1 /\ pc' = "query"
       ELSE entry' = entry /\ pc' = "close_cursor"
    /\ UNCHANGED <<env, serverUp, conn, cs, registry, rows, usage, attempts,
                   closes, pre, prevOutcome, sameData, scraped, crash,
                   sessions, context, written, running, unslept>>

\* cs.execute(...) or cs.fetchall() of the current entry raises
QueryRaise ==
    /\ pc = "query"
    /\ executed' = executed + 1
    /\ Except("query")
    /\ UNCHANGED <<env, serverUp, conn, cs, registry, entry, rows, usage, attempts,
                   closes, pre, prevOutcome, sameData, scraped, crash,
                   sessions, context, written, running, unslept>>

\* one pass of `for row in cs.fetchall()`: gauge.labels(...).set(row[-1])
WriteRow ==
    /\ pc = "write"
    /\ rows # <<>>
    /\ Head(rows).value # Null
    /\ written' = [written EXCEPT ![Catalog[entry]] =
                      @ \cup {LabelKey(Head(rows).labels)}]
    /\ registry' = [registry EXCEPT ![Catalog[entry]] =
                       SetSample(@, LabelKey(Head(rows).labels), Head(rows).value[1])]
    /\ rows' = Tail(rows)
    /\ IF Tail(rows) = <<>> THEN Advance ELSE UNCHANGED <<pc, entry, outcome>>
    /\ UNCHANGED <<env, serverUp, conn, cs, usage, err, attempts, closes, pre,
                   prevOutcome, sameData, scraped, crash,
                   sessions, context, executed, running, unslept>>

\* set(None): labels(...) has made the child, then float(None) raises TypeError
WriteRaise ==
    /\ pc = "write"
    /\ rows # <<>>
    /\ Head(rows).value = Null
    /\ written' = [written EXCEPT ![Catalog[entry]] =
                      @ \cup {LabelKey(Head(rows).labels)}]
    /\ registry' = [registry EXCEPT ![Catalog[entry]] =
                       WithChild(@, LabelKey(Head(rows).labels))]
    /\ Except("set")
    /\ UNCHANGED <<env, serverUp, conn, cs, entry, rows, usage, attempts, closes,
                   pre, prevOutcome, sameData, scraped, crash,
                   sessions, context, executed, running, unslept>>

\* finally: cs.close()
CloseCursorOk ==
    /\ pc = "close_cursor"
    /\ cs' = "closed"
    /\ pc' = "close_conn"
    /\ UNCHANGED <<env, serverUp, conn, registry, entry, rows, usage, outcome, err,
                   attempts, closes, pre, prevOutcome, sameData, scraped, crash,
                   sessions, context, executed, written, running, unslept>>

\* a cs.close() whose exception is logged, collect_metrics() then returning
\* without conn.close()
CloseCursorRaiseLogged ==
    /\ pc = "close_cursor"
    /\ running' = running - 1
    /\ unslept' = unslept + 1
    /\ pc' = "sleep"
    /\ UNCHANGED <<env, serverUp, conn, cs, registry, entry, rows, usage, outcome, err,
                   attempts, closes, pre, prevOutcome, sameData, scraped, crash,
                   sessions, context, executed, written>>

\* cs.close() raises inside finally: conn.close() is not reached and the
\* exception leaves collect_metrics() and serve()
CloseCursorRaise ==
    /\ pc = "close_cursor"
    /\ crash' = "cs.close"
    /\ pc' = "crashed"
    /\ UNCHANGED <<env, serverUp, conn, cs, registry, entry, rows, usage, outcome, err,
                   attempts, closes, pre, prevOutcome, sameData, scraped,
                   sessions, context, executed, written, running, unslept>>

\* finally: conn.close()
CloseConnOk ==
    /\ pc = "close_conn"
    /\ conn' = "closed"
    /\ closes' = closes + 1
    /\ sessions' = sessions - 1
    /\ running' = running - 1
    /\ unslept' = unslept + 1
    /\ pc' = "sleep"
    /\ UNCHANGED <<env, serverUp, cs, registry, entry, rows, usage, outcome, err,
                   attempts, pre, prevOutcome, sameData, scraped, crash,
                   context, executed, written>>

\* conn.close() raises inside finally
CloseConnRaise ==
    /\ pc = "close_conn"
    /\ crash' = "conn.close"
    /\ pc' = "crashed"
    /\ UNCHANGED <<env, serverUp, conn, cs, registry, entry, rows, usage, outcome, err,
                   attempts, closes, pre, prevOutcome, sameData, scraped,
                   sessions, context, executed, written, running, unslept>>

----------------------------------------------------------------------------
(* serve(): time.sleep(60), then the next iteration *)

\* the sleep ends with the account-usage data being one of `next`
SleepTo(next) ==
    /\ pc = "sleep"
    /\ pc' = "loop"
    /\ \E data \in next : usage' = data /\ sameData' = (data = usage)
    /\ pre' = registry
    /\ prevOutcome' = outcome
    /\ outcome' = "Running"
    /\ conn' = "none"
    /\ cs' = "none"
    /\ entry' = 1
    /\ rows' = <<>>
    /\ err' = ""
    /\ attempts' = 0
    /\ closes' = 0
    /\ scraped' = <<>>
    /\ context' = <<>>
    /\ executed' = 0
    /\ written' = NothingWritten
    /\ unslept' = unslept - 1
    /\ UNCHANGED <<env, serverUp, registry, crash,
                   sessions, running>>

----------------------------------------------------------------------------
(* The scrape server's thread: one gauge's samples read under its lock *)

Scrape ==
    /\ serverUp
    /\ pc # "crashed"
    /\ \E m \in Metrics : scraped' = <<m, registry[m]>>
    /\ UNCHANGED <<env, pc, serverUp, conn, cs, registry, entry, rows, usage,
                   outcome, err, attempts, closes, pre, prevOutcome, sameData, crash,
                   sessions, context, executed, written, running, unslept>>

----------------------------------------------------------------------------

Cycle ==
    \/ ConnectOk \/ ConnectFail \/ CursorOk \/ CursorRaise \/ ClearAll
    \/ UseDatabaseOk \/ UseDatabaseRaise \/ UseSchemaOk \/ UseSchemaRaise
    \/ QueryOk \/ QueryRaise \/ WriteRow \/ WriteRaise
    \/ CloseCursorOk \/ CloseCursorRaise \/ CloseConnOk \/ CloseConnRaise

\* the account-usage data may be different by the time the sleep ends
Sleep == SleepTo(Usages)

Next == Validate \/ StartServer \/ Cycle \/ Sleep

Spec == Init /\ [][Next]_vars

\* The exporter with its scrape reader, over account-usage data that stays
\* as it is and a complete environment
SleepSameData == SleepTo({usage})

InitScrape == Init /\ missing(env) = {}

NextScrape == Validate \/ StartServer \/ Cycle \/ SleepSameData \/ Scrape

SpecScrape == InitScrape /\ [][NextScrape]_vars

----------------------------------------------------------------------------
(* Vocabulary of the properties *)

\* the cycle has ended: collect_metrics() returned, or its exception left it
CycleEnded == pc \in {"sleep", "crashed"}

\* the samples are exactly those of the rows: one label tuple per row's
\* labels, each carrying the value of the last row with those labels
HoldsRows(samples, rs) ==
    /\ DOMAIN samples = {LabelKey(rs[i].labels) : i \in 1..Len(rs)}
    /\ \A i \in 1..Len(rs) :
          (\A j \in (i + 1)..Len(rs) : LabelKey(rs[j].labels) # LabelKey(rs[i].labels))
              => Some(samples[LabelKey(rs[i].labels)]) = rs[i].value

ThisCycleRows(m) == Results(m, usage)

----------------------------------------------------------------------------
(* C1 *)

----------------------------------------------------------------------------
(* C2 *)

\* C2: a cycle whose connection attempt failed leaves every gauge with
\* exactly the samples it had when the cycle started.
C2_SkipInvariant ==
    (pc = "sleep" /\ outcome = "Skipped") => registry = pre

\* a skipped cycle over gauges that all hold samples
C2_Witness ==
    /\ pc = "sleep"
    /\ outcome = "Skipped"
    /\ \A m \in Metrics : registry[m] # <<>>

----------------------------------------------------------------------------
(* C3 *)

\* C3: once all nine queries of a cycle have completed, the label tuples of
\* every gauge are exactly the label tuples of the rows its query returned in
\* this cycle; a tuple of an earlier cycle that no row has now is gone.
C3_NoStaleLabels ==
    outcome = "Committed" =>
        \A m \in Metrics :
            DOMAIN registry[m] =
                {LabelKey(ThisCycleRows(m)[i].labels) : i \in 1..Len(ThisCycleRows(m))}

\* a committed cycle after which a gauge that held samples holds none (its
\* query returned no rows) and another gauge has lost one label tuple
C3_Witness ==
    /\ pc = "sleep"
    /\ outcome = "Committed"
    /\ \E m \in Metrics : pre[m] # <<>> /\ registry[m] = <<>>
    /\ \E m \in Metrics :
          /\ registry[m] # <<>>
          /\ \E key \in DOMAIN pre[m] : key \notin DOMAIN registry[m]

----------------------------------------------------------------------------
(* C4 *)

\* C4: no sample of any gauge has a label that stands for a null grouping
\* column (str(None), the label a null column is given); stated for the
\* cycles in which no call has raised.
C4_NoNullLabel ==
    err = "" =>
        \A m \in Metrics : \A key \in DOMAIN registry[m] :
            \A i \in 1..Len(key) : key[i] # Str(Null)

----------------------------------------------------------------------------
(* C5 *)

\* C5: when a cycle that acquired a connection has ended, the connection is
\* closed and conn.close() ran exactly once.
C5_ClosedOnce ==
    (CycleEnded /\ outcome # "Skipped") => (conn = "closed" /\ closes = 1)

----------------------------------------------------------------------------
(* C6 *)

\* C6: once the server has started, no exception of a cycle leaves serve().
C6_NeverCrashes == serverUp => pc # "crashed"

----------------------------------------------------------------------------
(* C7 *)

\* C7: an exception raised by cs.close() or conn.close() does not leave
\* collect_metrics().
C7_CloseErrorContained == crash \notin {"cs.close", "conn.close"}

----------------------------------------------------------------------------
(* C8 *)

\* C8: what a scrape reads of one gauge during a cycle is either the gauge's
\* complete sample set of before the cycle or the complete sample set of this
\* cycle's rows (stated for a cycle that follows a committed one and in which
\* no call has raised).
C8_ScrapeSeesWholeSets ==
    (scraped # <<>> /\ err = "" /\ prevOutcome = "Committed") =>
        \/ scraped[2] = pre[scraped[1]]
        \/ HoldsRows(scraped[2], ThisCycleRows(scraped[1]))

----------------------------------------------------------------------------
(* C9 *)

\* C9: a committed cycle that follows a committed cycle over the same
\* account-usage data leaves the registry as the first one left it.
C9_Idempotent ==
    (outcome = "Committed" /\ prevOutcome = "Committed" /\ sameData)
        => registry = pre

\* two committed cycles in a row over the same data, with samples in every
\* gauge whose query is not filtered
C9_Witness ==
    /\ pc = "sleep"
    /\ outcome = "Committed"
    /\ prevOutcome = "Committed"
    /\ sameData
    /\ registry["warehouse_credits"] # <<>>
    /\ registry["table_storage"] # <<>>

----------------------------------------------------------------------------
(* C10 *)

\* C10: with a required variable unset or empty, the process has exited at
\* validation, with no server started and no connection attempted; with all
\* six set, it never exits.
C10_FailFast ==
    IF \E k \in required_env : env[k] \in {Null, Some("")}
    THEN pc \in {"validate", "exited"} /\ ~serverUp /\ attempts = 0 /\ conn = "none"
    ELSE pc # "exited"

\* the process has exited over an environment whose only fault is one
\* variable set to the empty string
C10_Witness ==
    /\ pc = "exited"
    /\ \E k \in required_env :
          /\ env[k] = Some("")
          /\ \A other \in required_env \ {k} : env[other] = Some("x")

----------------------------------------------------------------------------
(* C11 *)

\* C11: at most one session is open and at most one collect_metrics() call
\* is in progress; when a cycle is about to start, and while the scheduler
\* sleeps, no session is open, so a cycle only ever uses its own session.
C11_OneSessionOneCycle ==
    /\ sessions <= 1
    /\ running <= 1
    /\ pc \in {"loop", "sleep"} => (sessions = 0 /\ running = 0)
    /\ (sessions = 1 /\ pc # "crashed") => (running = 1 /\ conn = "open")

\* the scheduler sleeps after the second of two cycles that each opened and
\* closed a session
C11_Witness ==
    /\ pc = "sleep"
    /\ closes = 1
    /\ prevOutcome \in {"Committed", "Failed"}
    /\ sessions = 0

----------------------------------------------------------------------------
(* C12 *)

\* C12: a cycle has sent a catalog query, or is about to, only after USE
\* DATABASE and then USE SCHEMA returned in that cycle.
C12_ContextBeforeQueries ==
    (executed > 0 \/ pc \in {"query", "write"}) => context = <<"database", "schema">>

\* a cycle that has sent all nine queries
C12_Witness ==
    /\ executed = Len(Catalog)
    /\ outcome = "Committed"

----------------------------------------------------------------------------
(* C13 *)

\* C13: a cycle that ended after USE DATABASE or USE SCHEMA raised has sent
\* no catalog query, has left every gauge with the samples it had before the
\* cycle, and has closed its session.
C13_ContextFailureAborts ==
    (CycleEnded /\ err \in {"use_database", "use_schema"}) =>
        /\ executed = 0
        /\ registry = pre
        /\ conn = "closed"

----------------------------------------------------------------------------
(* C14 *)

\* C14: once the query of entry k has raised, the cycle has sent exactly k
\* queries, sends no more, and labels() has been given no row of an entry
\* j >= k in this cycle.
C14_AbortAfterQueryError ==
    err = "query" =>
        /\ executed = entry
        /\ pc \in {"close_cursor", "close_conn", "sleep", "crashed"}
        /\ \A j \in entry..Len(Catalog) : written[Catalog[j]] = {}

\* a cycle whose second query raised, after the first entry wrote samples,
\* over data that gives every later unfiltered entry rows
C14_Witness ==
    /\ pc = "sleep"
    /\ err = "query"
    /\ entry = 2
    /\ written[Catalog[1]] # {}
    /\ ThisCycleRows(Catalog[4]) # <<>>

----------------------------------------------------------------------------
(* C15 *)

\* C15: after a committed cycle every gauge has as many samples as its query
\* returned rows (stated over data in which no name is null).
C15_OneSamplePerRow ==
    (outcome = "Committed" /\ \A i \in 1..Len(usage) : usage[i].name # Null) =>
        \A m \in Metrics : Cardinality(DOMAIN registry[m]) = Len(ThisCycleRows(m))

----------------------------------------------------------------------------
(* C16 *)

\* C16: a cycle calls connect at most once; when the call fails the cycle has
\* ended as skipped, with no session, and the sleep comes next; a cycle that
\* is about to start has made no attempt.
C16_OneAttempt ==
    /\ attempts <= 1
    /\ pc = "loop" => attempts = 0
    /\ outcome = "Skipped" =>
          (pc = "sleep" /\ attempts = 1 /\ sessions = 0 /\ unslept = 1)

\* the second of two skipped cycles in a row
C16_Witness ==
    /\ pc = "sleep"
    /\ outcome = "Skipped"
    /\ prevOutcome = "Skipped"
    /\ attempts = 1

----------------------------------------------------------------------------
(* C17 *)

\* C17: at any time at most one collect_metrics() call is either running or
\* returned and not yet slept on; the scheduler is at its sleep exactly when
\* a call has returned and not been slept on, the session then released; a
\* cycle starts with every earlier return slept on.
C17_CyclesAndSleepsAlternate ==
    /\ running + unslept <= 1
    /\ (pc = "sleep") <=> (unslept = 1)
    /\ pc = "sleep" => sessions = 0
    /\ pc = "loop" => (running = 0 /\ unslept = 0)

\* the sleep after a cycle that followed an earlier cycle and its sleep
C17_Witness ==
    /\ pc = "sleep"
    /\ prevOutcome \in {"Skipped", "Committed", "Failed"}
    /\ unslept = 1
    /\ conn = "closed"

----------------------------------------------------------------------------
(* C18 *)

\* C18: when a cycle that acquired its connection and cursor has ended, every
\* sample in the registry has a label tuple labels() was given in this cycle.
C18_OnlyThisCyclesSamples ==
    (CycleEnded /\ cs # "none") =>
        \A m \in Metrics : DOMAIN registry[m] \subseteq written[m]

\* a cycle that failed at USE DATABASE over gauges that all held samples, and
\* left them empty
C18_Witness ==
    /\ pc = "sleep"
    /\ err = "use_database"
    /\ \A m \in Metrics : pre[m] # <<>>
    /\ registry = EmptyRegistry

----------------------------------------------------------------------------
(* C19 *)

\* C19: when the scheduler sleeps after a cycle that was not skipped, every
\* gauge is empty or holds exactly the rows its query returned in the cycle.
C19_WholeSetsAtSleep ==
    (pc = "sleep" /\ outcome # "Skipped") =>
        \A m \in Metrics :
            registry[m] = <<>> \/ HoldsRows(registry[m], ThisCycleRows(m))

====
